---- MODULE Spec2Model ----
(***************************************************************************)
(* MultiBuild (mixmaxhq/multibuild, src/index.js): coordination of several *)
(* rollup bundle targets that share per-group module caches.               *)
(*                                                                         *)
(* The state is the MultiBuild object (its cache-group registry, cache     *)
(* stores and dependency map), the gulp task registry it fills, the        *)
(* run-sequence instances that are listening for task completions and the  *)
(* rollup streams in flight.                                               *)
(***************************************************************************)
EXTENDS Integers, Sequences, FiniteSets, Bags, TLC

VARIABLES
  options,               \* the options object given to the constructor
  phase,                 \* "new" | "ready" | "error": progress of the constructor
  configError,           \* the Error thrown by the constructor, or NoError
  _cacheGroups,          \* this._cacheGroups: ordered Map group -> ordered Set of targets
  _targetCacheGroups,    \* this._targetCacheGroups: Map target -> group
  tasks,                 \* gulp's registry: task name -> registered task
  _caches,               \* this._caches: Map group -> cache.modules (module id -> record)
  _targetDependencyMap,  \* this._targetDependencyMap: target -> Set of module ids
  build,                 \* per target: the rollup stream of its build task
  groupTask,             \* per group task name: the run-sequence it is running
  calls,                 \* bag of the run-sequence instances that runAll,
                         \* runAllSequential and changed started and that still listen
  crashed,               \* an error was thrown out of an 'error' listener
  reported,              \* history: ids of the last bundle each target reported
  failed,                \* history: targets whose last finished attempt ended in an
                         \* error before a bundle, and that reported no bundle since
  lastError              \* the 'error' event of the last step, if it was one: the
                         \* error emitted and the arguments errorHandler was called with

vars == <<options, phase, configError, _cacheGroups, _targetCacheGroups, tasks,
          _caches, _targetDependencyMap, build, groupTask, calls, crashed,
          reported, failed, lastError>>

-----------------------------------------------------------------------------
(* Bounds of the explored inputs *)

MaxGroupLen == 2   \* length of the target list declared for one group
MaxActive   == 2   \* runAll/runAllSequential/changed sequences active at once

MaxNamed    == 2   \* targets of a construction whose task names are compared
MaxListed   == 1   \* targets listed under one group of such a construction

TargetNames == {"app", "spec", "vendor"}
UnknownName == "ghost"
GroupedNames == {"app", "spec", UnknownName}
GroupNames  == {"g1", "g2"}
Modules     == {"m1", "m2"}
Paths       == Modules \cup {"other.js"}

-----------------------------------------------------------------------------
(* Generic helpers for ordered collections *)

Range(s) == {s[i] : i \in 1..Len(s)}

NoRepeat(s) == \A i, j \in 1..Len(s) : i # j => s[i] # s[j]

SeqsUpTo(S, n) == UNION {[1..k -> S] : k \in 0..n}

RECURSIVE Filter(_, _)
Filter(s, keep) ==
  IF s = <<>> THEN <<>>
  ELSE IF Head(s) \in keep THEN <<Head(s)>> \o Filter(Tail(s), keep)
  ELSE Filter(Tail(s), keep)

\* new Set(iterable): insertion order, later duplicates dropped
RECURSIVE NewSet(_)
NewSet(s) ==
  IF s = <<>> THEN <<>>
  ELSE LET init == NewSet(SubSeq(s, 1, Len(s) - 1))
           last == s[Len(s)]
       IN IF last \in Range(init) THEN init ELSE Append(init, last)

\* Set.prototype.delete
SetDelete(s, v) == Filter(s, Range(s) \ {v})

\* Map.prototype.has / get / delete on an ordered Map of [group, targets] entries
MapHas(m, k) == \E i \in 1..Len(m) : m[i].group = k
MapGet(m, k) == m[CHOOSE i \in 1..Len(m) : m[i].group = k].targets
MapKeys(m)   == [i \in 1..Len(m) |-> m[i].group]

RECURSIVE MapDelete(_, _)
MapDelete(m, k) ==
  IF m = <<>> THEN <<>>
  ELSE IF Head(m).group = k THEN Tail(m)
  ELSE <<Head(m)>> \o MapDelete(Tail(m), k)

MapSet(m, k, v) ==
  IF MapHas(m, k)
  THEN [i \in 1..Len(m) |-> IF m[i].group = k THEN [group |-> k, targets |-> v] ELSE m[i]]
  ELSE Append(m, [group |-> k, targets |-> v])

-----------------------------------------------------------------------------
(* Constants of the program *)

\* the sentinel object: identical to no caller-chosen group name
DEFAULT_CACHE == [sentinel |-> TRUE, name |-> ""]

NamedGroup(n) == [sentinel |-> FALSE, name |-> n]

NoError == [thrown |-> FALSE, target |-> "", group |-> DEFAULT_CACHE, otherGroup |-> DEFAULT_CACHE]

\* the error a build of the target emits: before or after its bundle
BuildError(target, during) == [target |-> target, during |-> during]

NoBuildError == BuildError("", "")

\* a step that is not an 'error' event
NoErrorEvent == [error |-> NoBuildError, handlerArgs |-> <<>>]

\* static taskGroup(group)
taskGroup(group) == IF group = DEFAULT_CACHE THEN "jsdefaultgroup" ELSE "jsgroup:" \o group.name

\* faulty variant: the prefix without its colon
task_NoColon(target) == "js" \o target

\* static task(target)
task(target) == "js:" \o target

-----------------------------------------------------------------------------
(* The constructor *)

\* toMap(options.cacheGroups, (v) => new Set(v))
toMap(value) ==
  [i \in 1..Len(value) |->
     [group |-> NamedGroup(value[i].group), targets |-> NewSet(value[i].targets)]]

\* the (group, target) pairs in the order the nested for-of loops visit them
RECURSIVE GroupPairs(_)
GroupPairs(m) ==
  IF m = <<>> THEN <<>>
  ELSE [j \in 1..Len(Head(m).targets) |->
          [group |-> Head(m).group, target |-> Head(m).targets[j]]]
       \o GroupPairs(Tail(m))

\* faulty variant: a target that already has a group is silently moved to the later one
RECURSIVE AssignGroups_NoThrow(_, _, _, _)
AssignGroups_NoThrow(pairs, targetsSet, tcg, discards) ==
  IF pairs = <<>>
  THEN [error |-> NoError, tcg |-> tcg, discards |-> discards]
  ELSE LET p == Head(pairs) IN
       IF p.target \notin targetsSet
       THEN AssignGroups_NoThrow(Tail(pairs), targetsSet, tcg, Append(discards, p))
       ELSE AssignGroups_NoThrow(Tail(pairs), targetsSet,
                                 (p.target :> p.group) @@ tcg, discards)

\* the loop that fills _targetCacheGroups, collects the discards and throws on
\* a target that already has a group
RECURSIVE AssignGroups(_, _, _, _)
AssignGroups(pairs, targetsSet, tcg, discards) ==
  IF pairs = <<>>
  THEN [error |-> NoError, tcg |-> tcg, discards |-> discards]
  ELSE LET p == Head(pairs) IN
       IF p.target \notin targetsSet
       THEN AssignGroups(Tail(pairs), targetsSet, tcg, Append(discards, p))
       ELSE IF p.target \in DOMAIN tcg
       THEN [error |-> [thrown |-> TRUE, target |-> p.target, group |-> p.group,
                        otherGroup |-> tcg[p.target]],
             tcg |-> tcg, discards |-> discards]
       ELSE AssignGroups(Tail(pairs), targetsSet, tcg @@ (p.target :> p.group), discards)

\* faulty variant: the discards are collected but never removed
RemoveDiscards_Keep(m, discards) == m

\* "Remove groups with non-existent targets."
RECURSIVE RemoveDiscards(_, _)
RemoveDiscards(m, discards) ==
  IF discards = <<>> THEN m
  ELSE LET d == Head(discards)
           groupTargets == MapGet(m, d.group)
           deleted == SetDelete(groupTargets, d.target)
       IN IF Len(groupTargets) > 0
          THEN IF Len(deleted) = 0
               THEN RemoveDiscards(MapDelete(m, d.group), Tail(discards))
               ELSE RemoveDiscards(MapSet(m, d.group, deleted), Tail(discards))
          ELSE RemoveDiscards(m, Tail(discards))

\* the loop that collects the targets without an explicit group in the default group
AddDefaultGroup(m, targets, tcg) ==
  LET defaultGroup == NewSet(Filter(targets, Range(targets) \ DOMAIN tcg))
  IN IF defaultGroup = <<>> THEN m ELSE MapSet(m, DEFAULT_CACHE, defaultGroup)

EmptyMap == [x \in {} |-> {}]

\* _registerTasks: gulp.task() for every group, then for every target; a later
\* registration under the same name replaces the earlier one
\* faulty variant: the group task runs its first member only
GroupTaskDef_FirstOnly(entry) ==
  [kind |-> "group", target |-> "",
   sequence |-> [j \in 1..(IF entry.targets = <<>> THEN 0 ELSE 1) |->
                   <<task(entry.targets[j])>>]]

\* faulty variant: the member tasks are handed to run-sequence as one parallel set
GroupTaskDef_Parallel(entry) ==
  [kind |-> "group", target |-> "",
   sequence |-> <<[j \in 1..Len(entry.targets) |-> task(entry.targets[j])]>>]

GroupTaskDef(entry) ==
  [kind |-> "group", target |-> "",
   sequence |-> [j \in 1..Len(entry.targets) |-> <<task(entry.targets[j])>>]]

TargetTaskDef(target) == [kind |-> "target", target |-> target, sequence |-> <<>>]

RECURSIVE RegisterGroupTasks(_, _)
RegisterGroupTasks(m, registry) ==
  IF m = <<>> THEN registry
  ELSE RegisterGroupTasks(Tail(m),
         (taskGroup(Head(m).group) :> GroupTaskDef(Head(m))) @@ registry)

RECURSIVE RegisterTargetTasks(_, _)
RegisterTargetTasks(targets, registry) ==
  IF targets = <<>> THEN registry
  ELSE RegisterTargetTasks(Tail(targets),
         (task(Head(targets)) :> TargetTaskDef(Head(targets))) @@ registry)

_registerTasks(m, targets) == RegisterTargetTasks(targets, RegisterGroupTasks(m, EmptyMap))

\* what new MultiBuild(opts) leaves behind
Constructor(opts) ==
  LET declared == toMap(opts.cacheGroups)
      assigned == AssignGroups(GroupPairs(declared), Range(opts.targets), EmptyMap, <<>>)
      kept     == RemoveDiscards(declared, assigned.discards)
      groups   == AddDefaultGroup(kept, opts.targets, assigned.tcg)
  IN IF assigned.error.thrown
     THEN [error |-> assigned.error, cacheGroups |-> declared,
           targetCacheGroups |-> assigned.tcg, tasks |-> EmptyMap]
     ELSE [error |-> NoError, cacheGroups |-> groups,
           targetCacheGroups |-> assigned.tcg, tasks |-> _registerTasks(groups, opts.targets)]

-----------------------------------------------------------------------------
(* Cache stores and dependency tracking *)

\* a module object of a bundle: its id, and the build that produced it
ModuleRecord(id, target) == [id |-> id, origin |-> target]

\* faulty variant: one cache for all targets, as before cache groups existed
CacheGroupOf_Default(target) == DEFAULT_CACHE

\* the group _getCache resolves for a target
CacheGroupOf(target) ==
  IF target \in DOMAIN _targetCacheGroups THEN _targetCacheGroups[target] ELSE DEFAULT_CACHE

\* _getCache(target, {init}): the cache object returned, as its modules object
_getCache(caches, target) ==
  LET group == CacheGroupOf(target)
  IN IF group \in DOMAIN caches THEN caches[group] ELSE EmptyMap

\* faulty variant: a new cache object is stored under the default group's key
_getCacheStore_Default(caches, target, init) ==
  IF CacheGroupOf(target) \notin DOMAIN caches /\ init
  THEN (DEFAULT_CACHE :> EmptyMap) @@ caches ELSE caches

\* faulty variant: a new cache object is never stored
_getCacheStore_NoInit(caches, target, init) == caches

\* _getCache(target, {init}): this._caches after the call
_getCacheStore(caches, target, init) ==
  LET group == CacheGroupOf(target)
  IN IF group \notin DOMAIN caches /\ init THEN (group :> EmptyMap) @@ caches ELSE caches

\* _.values(cache.modules)
Values(modules) == {modules[id] : id \in DOMAIN modules}

\* the cache option of the rollupOptions a build task of the target puts together
SeedFor(target) ==
  IF target \in options.skipCache
  THEN [present |-> FALSE, modules |-> {}]
  ELSE [present |-> TRUE, modules |-> Values(_getCache(_caches, target))]

\* the values of option keys: undefined, a value of the caller or of
\* options.input, or a cache payload {modules: [...]}
Undefined == [kind |-> "undefined", v |-> "", modules |-> {}]

Val(v) == [kind |-> "value", v |-> v, modules |-> {}]

CachePayload(modules) == [kind |-> "cache", v |-> "", modules |-> modules]

\* an object without keys
EmptyObject == [k \in {} |-> Undefined]

\* one source of _.defaults: its keys fill the keys of obj that are undefined
FillUndefined(obj, source) ==
  [k \in DOMAIN obj \cup DOMAIN source |->
     IF k \in DOMAIN obj /\ obj[k] # Undefined THEN obj[k]
     ELSE IF k \in DOMAIN source THEN source[k]
     ELSE obj[k]]

\* faulty variant: _.extend, where every later source overwrites
RECURSIVE Defaults_Extend(_, _)
Defaults_Extend(obj, sources) ==
  IF sources = <<>> THEN obj
  ELSE Defaults_Extend(Head(sources) @@ obj, Tail(sources))

\* _.defaults(obj, ...sources)
RECURSIVE Defaults(_, _)
Defaults(obj, sources) ==
  IF sources = <<>> THEN obj
  ELSE Defaults(FillUndefined(obj, Head(sources)), Tail(sources))

\* _.isFunction(options.rollupOptions) ? options.rollupOptions(target) : options.rollupOptions
CallerRollupOptions(target) ==
  IF options.rollupOptions.isFunction
  THEN options.rollupOptions.value[target]
  ELSE options.rollupOptions.value

\* the rollupOptions a build task of the target hands to rollup(), given the
\* cache seed it read
rollupOptions(target, seed) ==
  Defaults(("input" :> options.input[target]),
           <<IF seed.present THEN ("cache" :> CachePayload(seed.modules)) ELSE EmptyObject,
             CallerRollupOptions(target)>>)

\* faulty variant: the loop fills the cache but adds no id to the dependencies
RECURSIVE AddModules_CacheOnly(_, _, _, _)
AddModules_CacheOnly(modules, skipCache, dependencies, cacheModules) ==
  IF modules = <<>>
  THEN [dependencies |-> dependencies, cacheModules |-> cacheModules]
  ELSE LET module == Head(modules)
       IN AddModules_CacheOnly(Tail(modules), skipCache, dependencies,
                               IF skipCache THEN cacheModules
                               ELSE (module.id :> module) @@ cacheModules)

\* the for-of loop of the 'bundle' listener
RECURSIVE AddModules(_, _, _, _)
AddModules(modules, skipCache, dependencies, cacheModules) ==
  IF modules = <<>>
  THEN [dependencies |-> dependencies, cacheModules |-> cacheModules]
  ELSE LET module == Head(modules)
       IN AddModules(Tail(modules), skipCache,
                     dependencies \cup {module.id},
                     IF skipCache THEN cacheModules
                     ELSE (module.id :> module) @@ cacheModules)

\* the modules object written through `cache` is the group's only if the
\* cache object is the one this._caches holds
WriteBack(store, group, cacheModules) ==
  IF group \in DOMAIN store THEN (group :> cacheModules) @@ store ELSE store

\* faulty variant: the dependencies of the earlier bundle are kept and added to
OnBundle_Merge(target, modules) ==
  LET skipCache == target \in options.skipCache
      store     == IF skipCache THEN _caches ELSE _getCacheStore(_caches, target, TRUE)
      cache     == IF skipCache THEN EmptyMap ELSE _getCache(store, target)
      before    == IF target \in DOMAIN _targetDependencyMap
                   THEN _targetDependencyMap[target] ELSE {}
      added     == AddModules(modules, skipCache, before, cache)
  IN [dependencies |-> (target :> added.dependencies) @@ _targetDependencyMap,
      caches |-> IF skipCache THEN _caches
                 ELSE WriteBack(store, CacheGroupOf(target), added.cacheModules)]

\* faulty variant: the listener gets the cache with init before it looks at skipCache
OnBundle_InitAlways(target, modules) ==
  LET skipCache == target \in options.skipCache
      store     == _getCacheStore(_caches, target, TRUE)
      cache     == _getCache(store, target)
      added     == AddModules(modules, skipCache, {}, cache)
  IN [dependencies |-> (target :> added.dependencies) @@ _targetDependencyMap,
      caches |-> WriteBack(store, CacheGroupOf(target), added.cacheModules)]

\* faulty variant: the listener starts from an empty modules object, like the
\* dependency set
OnBundle_FreshCache(target, modules) ==
  LET skipCache == target \in options.skipCache
      store     == IF skipCache THEN _caches ELSE _getCacheStore(_caches, target, TRUE)
      added     == AddModules(modules, skipCache, {}, EmptyMap)
  IN [dependencies |-> (target :> added.dependencies) @@ _targetDependencyMap,
      caches |-> IF skipCache THEN _caches
                 ELSE WriteBack(store, CacheGroupOf(target), added.cacheModules)]

\* faulty variant: the listener caches the modules of a skipCache target too
OnBundle_IgnoreSkip(target, modules) ==
  LET store == _getCacheStore(_caches, target, TRUE)
      cache == _getCache(store, target)
      added == AddModules(modules, FALSE, {}, cache)
  IN [dependencies |-> (target :> added.dependencies) @@ _targetDependencyMap,
      caches |-> WriteBack(store, CacheGroupOf(target), added.cacheModules)]

\* the 'bundle' listener of the target's build task
OnBundle(target, modules) ==
  LET skipCache == target \in options.skipCache
      store     == IF skipCache THEN _caches ELSE _getCacheStore(_caches, target, TRUE)
      cache     == IF skipCache THEN EmptyMap ELSE _getCache(store, target)
      added     == AddModules(modules, skipCache, {}, cache)
  IN [dependencies |-> (target :> added.dependencies) @@ _targetDependencyMap,
      caches |-> IF skipCache THEN _caches
                 ELSE WriteBack(store, CacheGroupOf(target), added.cacheModules)]

\* faulty variant: the filter of the first release, without the _.has test
IsAffected_Legacy(target, path) ==
  IF target \notin DOMAIN _targetDependencyMap THEN FALSE
  ELSE path \in _targetDependencyMap[target]

\* faulty variant: the filter returns the (truthy) Set instead of asking it for the path
IsAffected_Truthy(target, path) == TRUE

\* the filter of changed(path)
IsAffected(target, path) ==
  IF target \notin DOMAIN _targetDependencyMap THEN TRUE
  ELSE path \in _targetDependencyMap[target]

\* faulty variant: the filter is dropped and every target is rebuilt
ChangedTargetTasks_All(path) == [i \in 1..Len(options.targets) |-> task(options.targets[i])]

\* changedTargetTasks of changed(path)
ChangedTargetTasks(path) ==
  LET affected == {t \in Range(options.targets) : IsAffected(t, path)}
      kept == Filter(options.targets, affected)
  IN [i \in 1..Len(kept) |-> task(kept[i])]

\* faulty variant: the group tasks are listed last registered first
taskGroups_Reversed ==
  [i \in 1..Len(_cacheGroups) |->
     taskGroup(MapKeys(_cacheGroups)[Len(_cacheGroups) + 1 - i])]

\* taskGroups()
taskGroups == [i \in 1..Len(_cacheGroups) |-> taskGroup(MapKeys(_cacheGroups)[i])]

-----------------------------------------------------------------------------
(* The task harness: gulp.start and the run-sequence listeners *)

IdleBuild == [phase |-> "idle", seed |-> [present |-> FALSE, modules |-> {}], by |-> ""]

IdleGroup == [running |-> FALSE, sets |-> <<>>, cur |-> {}]

InFlight(b) == b.phase # "idle"

\* the starter recorded for a build that a run-sequence of runAll,
\* runAllSequential or changed started itself (a group task is named instead)
TopLevel == "<call>"

\* the body of a target's build task up to the call of rollup(rollupOptions)
StartBuild(target, by) == [phase |-> "rollup", seed |-> SeedFor(target), by |-> by]

RECURSIVE StartTasks(_, _, _)
RECURSIVE StartOne(_, _, _)
RECURSIVE RunNextSetGroup(_, _)
RECURSIVE RunNextSetCall(_, _)
RECURSIVE StopTask(_, _)
RECURSIVE NotifyCalls(_, _, _)
RECURSIVE NotifyGroups(_, _, _)

\* gulp.start(...names): every named task that is not running is run
StartTasks(H, names, by) ==
  IF names = <<>> THEN H
  ELSE StartTasks(StartOne(H, Head(names), by), Tail(names), by)

StartOne(H, name, by) ==
  LET def == tasks[name] IN
  IF def.kind = "target"
  THEN IF InFlight(H.build[def.target]) THEN H
       ELSE [H EXCEPT !.build[def.target] = StartBuild(def.target, by)]
  ELSE IF H.groupTask[name].running THEN H
       ELSE RunNextSetGroup(
              [H EXCEPT !.groupTask[name] =
                 [running |-> TRUE, sets |-> def.sequence, cur |-> {}]], name)

\* runNextSet of the run-sequence inside a group task; its callback is the
\* group task's done
RunNextSetGroup(H, name) ==
  LET inst == H.groupTask[name] IN
  IF inst.sets = <<>>
  THEN StopTask([H EXCEPT !.groupTask[name] = IdleGroup], name)
  ELSE StartTasks([H EXCEPT !.groupTask[name].sets = Tail(inst.sets),
                            !.groupTask[name].cur = Range(Head(inst.sets))],
                  Head(inst.sets), name)

\* runNextSet of a run-sequence started by runAll, runAllSequential or changed
RunNextSetCall(H, i) ==
  LET inst == H.calls[i] IN
  IF inst.sets = <<>>
  THEN [H EXCEPT !.calls[i].finished = TRUE]
  ELSE StartTasks([H EXCEPT !.calls[i].sets = Tail(inst.sets),
                            !.calls[i].cur = Range(Head(inst.sets))],
                  Head(inst.sets), TopLevel)

\* gulp emits task_stop for the task: every listening run-sequence takes the
\* task off its current set and moves on when the set is empty
StopTask(H, name) == NotifyGroups(NotifyCalls(H, name, 1), name, 1)

NotifyCalls(H, name, i) ==
  IF i > Len(H.calls) THEN H
  ELSE IF H.calls[i].finished \/ name \notin H.calls[i].cur
  THEN NotifyCalls(H, name, i + 1)
  ELSE LET H1 == [H EXCEPT !.calls[i].cur = @ \ {name}]
       IN NotifyCalls(IF H1.calls[i].cur = {} THEN RunNextSetCall(H1, i) ELSE H1,
                      name, i + 1)

NotifyGroups(H, name, i) ==
  IF i > Len(taskGroups) THEN H
  ELSE LET g == taskGroups[i] IN
       IF ~H.groupTask[g].running \/ name \notin H.groupTask[g].cur
       THEN NotifyGroups(H, name, i + 1)
       ELSE LET H1 == [H EXCEPT !.groupTask[g].cur = @ \ {name}]
            IN NotifyGroups(IF H1.groupTask[g].cur = {} THEN RunNextSetGroup(H1, g) ELSE H1,
                            name, i + 1)

\* the listening instances one after the other; they react to a task_stop
\* independently of each other, so the order among them is immaterial
RECURSIVE BagToSeq(_)
BagToSeq(b) ==
  IF BagToSet(b) = {} THEN <<>>
  ELSE LET inst == CHOOSE x \in BagToSet(b) : TRUE
       IN <<inst>> \o BagToSeq(b (-) SetToBag({inst}))

RECURSIVE SeqToBag(_)
SeqToBag(s) ==
  IF s = <<>> THEN EmptyBag
  ELSE SetToBag({Head(s)}) (+) SeqToBag(Tail(s))

Harness == [build |-> build, groupTask |-> groupTask, calls |-> BagToSeq(calls)]

NotFinished(inst) == ~inst.finished

\* instances whose callback ran have removed their listeners
SetHarness(H) ==
  /\ build' = H.build
  /\ groupTask' = H.groupTask
  /\ calls' = SeqToBag(SelectSeq(H.calls, NotFinished))

\* runSequence.use(gulp)(...sets): register the listeners and run the first set
RunSequence(sets) ==
  LET inst == [sets |-> sets, cur |-> {}, finished |-> FALSE]
      H == [Harness EXCEPT !.calls = Append(@, inst)]
  IN RunNextSetCall(H, Len(H.calls))

\* the build task of the target signals completion to gulp
TaskCompleted(target) ==
  StopTask([Harness EXCEPT !.build[target] = IdleBuild], task(target))

-----------------------------------------------------------------------------
(* The explored constructor inputs *)

\* options.input: the entry point of every target
DefaultInput == [t \in TargetNames |-> Val("src/" \o t)]

\* options.rollupOptions left out
NoRollupOptions == [isFunction |-> FALSE, value |-> EmptyObject]

OptionsOf(targets, cacheGroups, skipCache, errorHandler) ==
  [targets |-> targets, cacheGroups |-> cacheGroups,
   skipCache |-> skipCache, errorHandler |-> errorHandler,
   input |-> DefaultInput, rollupOptions |-> NoRollupOptions]

GroupEntry(group, targets) == [group |-> group, targets |-> targets]

\* the keys of an object (or Map) are distinct
DistinctKeys(spec) == \A i, j \in 1..Len(spec) : i # j => spec[i].group # spec[j].group

TargetLists ==
  {<<>>, <<"app">>, <<"app", "spec">>, <<"spec", "app">>, <<"app", "spec", "vendor">>}

GroupSpecs ==
  LET entries == {GroupEntry(g, ts) : g \in GroupNames,
                    ts \in SeqsUpTo(GroupedNames, MaxGroupLen)}
  IN {spec \in SeqsUpTo(entries, Cardinality(GroupNames)) : DistinctKeys(spec)}

\* every construction within the bounds
CtorOptions ==
  {OptionsOf(ts, spec, {}, FALSE) : ts \in TargetLists, spec \in GroupSpecs}

\* the constructions whose builds are explored
RunLayouts ==
  { <<(<<"app", "spec">>), <<>>, {"spec"}>>,
    <<(<<"app", "vendor">>), <<GroupEntry("g1", <<"vendor">>)>>, {"vendor"}>>,
    <<(<<"app", "spec">>), <<GroupEntry("g1", <<"spec", "app">>)>>, {}>> }

RunOptions ==
  {OptionsOf(l[1], l[2], {}, TRUE) : l \in RunLayouts}
  \cup {OptionsOf(l[1], l[2], l[3], TRUE) : l \in RunLayouts}
  \cup {OptionsOf(<<"app", "spec">>, <<>>, {}, FALSE)}

\* the bundles rollup may report for a build of the target
Bundles(target) ==
  {[i \in 1..Len(ids) |-> ModuleRecord(ids[i], target)] :
     ids \in {s \in SeqsUpTo(Modules, Cardinality(Modules)) : NoRepeat(s)}}

Ids(modules) == {modules[i].id : i \in 1..Len(modules)}

-----------------------------------------------------------------------------
(* Initial state and operations *)

InitWith(optionSet) ==
  /\ options \in optionSet
  /\ phase = "new"
  /\ configError = NoError
  /\ _cacheGroups = <<>>
  /\ _targetCacheGroups = EmptyMap
  /\ tasks = EmptyMap
  /\ _caches = EmptyMap
  /\ _targetDependencyMap = EmptyMap
  /\ build = EmptyMap
  /\ groupTask = EmptyMap
  /\ calls = EmptyBag
  /\ crashed = FALSE
  /\ reported = EmptyMap
  /\ failed = {}
  /\ lastError = NoErrorEvent

Init == InitWith(RunOptions)

InitCtor == InitWith(CtorOptions)

\* new MultiBuild(options)
Construct ==
  /\ phase = "new"
  /\ LET made == Constructor(options) IN
     /\ phase' = IF made.error.thrown THEN "error" ELSE "ready"
     /\ configError' = made.error
     /\ _cacheGroups' = made.cacheGroups
     /\ _targetCacheGroups' = made.targetCacheGroups
     /\ tasks' = made.tasks
     /\ build' = [t \in {made.tasks[n].target :
                           n \in {k \in DOMAIN made.tasks : made.tasks[k].kind = "target"}}
                    |-> IdleBuild]
     /\ groupTask' = [n \in {k \in DOMAIN made.tasks : made.tasks[k].kind = "group"}
                        |-> IdleGroup]
  /\ lastError' = NoErrorEvent
  /\ UNCHANGED <<options, _caches, _targetDependencyMap, calls, crashed, reported, failed>>

Ready == phase = "ready" /\ ~crashed

\* faulty variant: the task names are passed as one array argument, a parallel set
Spread_Array(names) == IF names = <<>> THEN <<>> ELSE <<names>>

\* the spread of a call runSequence(...names): every name is a step of its own
Spread(names) == [i \in 1..Len(names) |-> <<names[i]>>]

\* runAll(done)
RunAll ==
  /\ Ready
  /\ BagCardinality(calls) < MaxActive
  /\ SetHarness(RunSequence(<<taskGroups>>))
  /\ lastError' = NoErrorEvent
  /\ UNCHANGED <<options, phase, configError, _cacheGroups, _targetCacheGroups, tasks,
                 _caches, _targetDependencyMap, crashed, reported, failed>>

\* runAllSequential(done)
RunAllSequential ==
  /\ Ready
  /\ BagCardinality(calls) < MaxActive
  /\ SetHarness(RunSequence(Spread(taskGroups)))
  /\ lastError' = NoErrorEvent
  /\ UNCHANGED <<options, phase, configError, _cacheGroups, _targetCacheGroups, tasks,
                 _caches, _targetDependencyMap, crashed, reported, failed>>

\* changed(path)
Changed(path) ==
  /\ Ready
  /\ LET changedTargetTasks == ChangedTargetTasks(path) IN
     IF changedTargetTasks # <<>>
     THEN /\ BagCardinality(calls) < MaxActive
          /\ SetHarness(RunSequence(Spread(changedTargetTasks)))
     ELSE UNCHANGED <<build, groupTask, calls>>
  /\ lastError' = NoErrorEvent
  /\ UNCHANGED <<options, phase, configError, _cacheGroups, _targetCacheGroups, tasks,
                 _caches, _targetDependencyMap, crashed, reported, failed>>

\* rollup emits 'bundle' on the stream of the target's build
BundleEvent(target, modules) ==
  /\ Ready
  /\ build[target].phase = "rollup"
  /\ LET after == OnBundle(target, modules) IN
     /\ _targetDependencyMap' = after.dependencies
     /\ _caches' = after.caches
  /\ build' = [build EXCEPT ![target].phase = "bundled"]
  /\ reported' = (target :> Ids(modules)) @@ reported
  /\ failed' = failed \ {target}
  /\ lastError' = NoErrorEvent
  /\ UNCHANGED <<options, phase, configError, _cacheGroups, _targetCacheGroups, tasks,
                 groupTask, calls, crashed>>

\* the stream of the target's build ends after its bundle: the task completes
EndEvent(target) ==
  /\ Ready
  /\ build[target].phase = "bundled"
  /\ SetHarness(TaskCompleted(target))
  /\ lastError' = NoErrorEvent
  /\ UNCHANGED <<options, phase, configError, _cacheGroups, _targetCacheGroups, tasks,
                 _caches, _targetDependencyMap, crashed, reported, failed>>

\* faulty variant: the handler is called but 'end' is not emitted on the stream
OnError_NoEnd(target, e) ==
  IF options.errorHandler
  THEN /\ UNCHANGED <<build, groupTask, calls>>
       /\ crashed' = FALSE
       /\ lastError' = [error |-> e, handlerArgs |-> <<e>>]
  ELSE /\ crashed' = TRUE
       /\ UNCHANGED <<build, groupTask, calls>>
       /\ lastError' = [error |-> e, handlerArgs |-> <<>>]

\* faulty variant: the handler is called but the task fails, which makes the
\* run-sequences that wait for it give up
OnError_Abort(target, e) ==
  IF options.errorHandler
  THEN /\ build' = [build EXCEPT ![target] = IdleBuild]
       /\ groupTask' = [g \in DOMAIN groupTask |->
                          IF task(target) \in groupTask[g].cur THEN IdleGroup
                          ELSE groupTask[g]]
       /\ calls' = [inst \in {x \in BagToSet(calls) : task(target) \notin x.cur} |->
                      calls[inst]]
       /\ crashed' = FALSE
       /\ lastError' = [error |-> e, handlerArgs |-> <<e>>]
  ELSE /\ crashed' = TRUE
       /\ UNCHANGED <<build, groupTask, calls>>
       /\ lastError' = [error |-> e, handlerArgs |-> <<>>]

\* faulty variant: without a handler the stream is ended and the error dropped
OnError_Swallow(target, e) ==
  /\ SetHarness(TaskCompleted(target))
  /\ crashed' = FALSE
  /\ lastError' = [error |-> e, handlerArgs |-> IF options.errorHandler THEN <<e>> ELSE <<>>]

\* the 'error' listener of the target's build task: end the stream, which
\* completes the task, and call errorHandler(e); or throw e
OnError(target, e) ==
  IF options.errorHandler
  THEN /\ SetHarness(TaskCompleted(target))
       /\ crashed' = FALSE
       /\ lastError' = [error |-> e, handlerArgs |-> <<e>>]
  ELSE /\ crashed' = TRUE
       /\ UNCHANGED <<build, groupTask, calls>>
       /\ lastError' = [error |-> e, handlerArgs |-> <<>>]

\* rollup emits 'error' on the stream of the target's build
ErrorEvent(target) ==
  /\ Ready
  /\ InFlight(build[target])
  /\ OnError(target, BuildError(target, build[target].phase))
  /\ failed' = IF build[target].phase = "rollup" THEN failed \cup {target} ELSE failed
  /\ UNCHANGED <<options, phase, configError, _cacheGroups, _targetCacheGroups, tasks,
                 _caches, _targetDependencyMap, reported>>

Next ==
  \/ Construct
  \/ RunAll
  \/ RunAllSequential
  \/ \E path \in Paths : Changed(path)
  \/ \E target \in DOMAIN build : \E modules \in Bundles(target) : BundleEvent(target, modules)
  \/ \E target \in DOMAIN build : EndEvent(target)
  \/ \E target \in DOMAIN build : ErrorEvent(target)

Spec == Init /\ [][Next]_vars

\* constructions only, over every cacheGroups spec within the bounds
SpecCtor == InitCtor /\ [][Construct]_vars

-----------------------------------------------------------------------------
(* Vocabulary of the properties *)

Targets == Range(options.targets)

\* the registry entries (positions in _cacheGroups) that list the target
EntriesOf(target) == {i \in 1..Len(_cacheGroups) : target \in Range(_cacheGroups[i].targets)}

\* the members of the registry group the target belongs to
GroupMates(target) == UNION {Range(_cacheGroups[i].targets) : i \in EntriesOf(target)}

\* the key of the registry group the target belongs to
RegistryGroup(target) == _cacheGroups[CHOOSE i \in EntriesOf(target) : TRUE].group

\* changed(path) would rebuild the target
Rebuilds(path, target) == task(target) \in Range(ChangedTargetTasks(path))

\* the step starts a build of the target / delivers its bundle
Starts(target) == ~InFlight(build[target]) /\ InFlight(build'[target])

Bundles_(target) == build[target].phase = "rollup" /\ build'[target].phase = "bundled"

\* the groups the cacheGroups option names for the target
DeclaredGroups(opts, target) ==
  {opts.cacheGroups[i].group :
     i \in {k \in 1..Len(opts.cacheGroups) : target \in Range(opts.cacheGroups[k].targets)}}

\* some target of `targets` is listed under two groups
DoubleListed(opts) == \E t \in Range(opts.targets) : Cardinality(DeclaredGroups(opts, t)) > 1

-----------------------------------------------------------------------------
(* Dependency tracking *)

\* C1: once a target has reported a bundle, its dependency set is exactly the
\* module ids of the bundle it reported last, and changed(p) rebuilds it if and
\* only if p is one of them.
C1_DepsAreLastBundle ==
  \A t \in DOMAIN reported :
    /\ t \in DOMAIN _targetDependencyMap
    /\ _targetDependencyMap[t] = reported[t]
    /\ \A p \in Paths : Rebuilds(p, t) <=> p \in reported[t]

\* a target whose group store still holds its own record of m2, while its last
\* bundle reported m1 alone: m2 no longer rebuilds it
C1_Witness ==
  \E t \in DOMAIN reported :
    /\ reported[t] = {"m1"}
    /\ ModuleRecord("m2", t) \in Values(_getCache(_caches, t))
    /\ Rebuilds("m1", t)
    /\ ~Rebuilds("m2", t)

\* C2: a target that has not reported a bundle yet is rebuilt by changed(p) for
\* every path p, also after failed attempts.
C2_NeverBuiltAlwaysRebuilt ==
  phase = "ready" =>
    \A t \in Targets \ DOMAIN reported : \A p \in Paths : Rebuilds(p, t)

\* a target whose attempt failed and that never reported a bundle, with the
\* program still running
C2_Witness ==
  /\ Ready
  /\ \E t \in failed : t \notin DOMAIN reported /\ ~InFlight(build[t])

\* C3 as stated: after a failed attempt the target is rebuilt for every path
\* until it reports a bundle again.
C3_FailedLikeNeverBuilt ==
  \A t \in failed : \A p \in Paths : Rebuilds(p, t)

\* C3 amended: a failed attempt leaves the dependency entry as it was: absent
\* (rebuilt for every path) if the target never reported a bundle, otherwise
\* the module ids of the bundle it reported last.
C3_FailedKeepsDependencies ==
  \A t \in failed :
    IF t \in DOMAIN reported
    THEN /\ t \in DOMAIN _targetDependencyMap
         /\ _targetDependencyMap[t] = reported[t]
         /\ \A p \in Paths : Rebuilds(p, t) <=> p \in reported[t]
    ELSE /\ t \notin DOMAIN _targetDependencyMap
         /\ \A p \in Paths : Rebuilds(p, t)

\* a target that failed after an earlier bundle, and a path that does not
\* rebuild it
C3_Witness ==
  \E t \in failed :
    /\ t \in DOMAIN reported
    /\ ~InFlight(build[t])
    /\ \E p \in Paths : ~Rebuilds(p, t)

-----------------------------------------------------------------------------
(* Cache stores *)

\* the record the store of the target's registry group holds for the id
Stored(caches, target, id) ==
  LET g == RegistryGroup(target) IN
  IF g \in DOMAIN caches /\ id \in DOMAIN caches[g] THEN {caches[g][id]} ELSE {}

\* C4: for targets A and B of one group, neither skip-cache: a bundle of A
\* stores its record under each reported id in the group's store, a stored
\* record stays until a bundle of a non-skip-cache member reports the same id,
\* and a build of B that starts is seeded with every record then in the store.
C4_SharedWithinGroup ==
  [][phase = "ready" => \A a \in Targets \ options.skipCache :
       /\ Bundles_(a) =>
            \A id \in reported'[a] : Stored(_caches', a, id) = {ModuleRecord(id, a)}
       /\ \A id \in Modules :
            (Stored(_caches, a, id) # {} /\ Stored(_caches', a, id) # Stored(_caches, a, id))
              => \E m \in GroupMates(a) \ options.skipCache :
                   Bundles_(m) /\ id \in reported'[m]
       /\ \A b \in GroupMates(a) \ options.skipCache :
            Starts(b) =>
              /\ build'[b].seed.present
              /\ \A id \in Modules : Stored(_caches, a, id) \subseteq build'[b].seed.modules
    ]_vars

\* targets [app, spec] without groups: a build of spec in flight, seeded with
\* the records of both modules that app reported
C4_Witness ==
  /\ Ready
  /\ options.targets = <<"app", "spec">>
  /\ options.cacheGroups = <<>>
  /\ options.skipCache = {}
  /\ "app" \in DOMAIN reported
  /\ reported["app"] = Modules
  /\ build["spec"].phase = "rollup"
  /\ {ModuleRecord(id, "app") : id \in Modules} \subseteq build["spec"].seed.modules

\* C5: the seed of a build holds only records that builds of the targets of
\* its own group produced.
C5_GroupsIsolated ==
  \A b \in DOMAIN build :
    InFlight(build[b]) =>
      \A r \in build[b].seed.modules : r.origin \in GroupMates(b)

\* two groups with a store each, and a seeded build in flight
C5_Witness ==
  /\ Cardinality(DOMAIN _caches) = 2
  /\ \A g \in DOMAIN _caches : DOMAIN _caches[g] # {}
  /\ \E b \in DOMAIN build : InFlight(build[b]) /\ build[b].seed.modules # {}

\* C6: a skip-cache target is seeded with nothing, none of its records is in
\* any store, a store exists only if a caching member of the group reported a
\* bundle, and its dependency set is that of its last bundle.
C6_SkipCacheUntouched ==
  \A t \in Targets \cap options.skipCache :
    /\ t \in DOMAIN build /\ InFlight(build[t]) =>
         ~build[t].seed.present /\ build[t].seed.modules = {}
    /\ \A g \in DOMAIN _caches : \A id \in DOMAIN _caches[g] : _caches[g][id].origin # t
    /\ \A g \in DOMAIN _caches :
         \E i \in 1..Len(_cacheGroups) :
           /\ _cacheGroups[i].group = g
           /\ \E m \in Range(_cacheGroups[i].targets) \ options.skipCache :
                m \in DOMAIN reported
    /\ t \in DOMAIN reported =>
         t \in DOMAIN _targetDependencyMap /\ _targetDependencyMap[t] = reported[t]

\* a skip-cache target that reported modules, in a group whose store the other
\* member filled
C6_Witness ==
  \E t \in Targets \cap options.skipCache :
    /\ t \in DOMAIN reported
    /\ reported[t] = Modules
    /\ RegistryGroup(t) \in DOMAIN _caches
    /\ DOMAIN _caches[RegistryGroup(t)] = Modules

-----------------------------------------------------------------------------
(* The cache group registry *)

\* the group the constructor has to give the target
ExpectedGroup(opts, target) ==
  IF DeclaredGroups(opts, target) = {} THEN DEFAULT_CACHE
  ELSE NamedGroup(CHOOSE n \in DeclaredGroups(opts, target) : TRUE)

\* C7: when no target is listed under two groups the constructor succeeds,
\* every target is in exactly one group of the registry (the declared one, or
\* the default group), and no group holds a name that is not a target.
C7_GroupingIsPartition ==
  (phase # "new" /\ ~DoubleListed(options)) =>
    /\ phase = "ready"
    /\ \A t \in Targets :
         /\ Cardinality(EntriesOf(t)) = 1
         /\ RegistryGroup(t) = ExpectedGroup(options, t)
    /\ \A i \in 1..Len(_cacheGroups) : Range(_cacheGroups[i].targets) \subseteq Targets
    /\ \A i, j \in 1..Len(_cacheGroups) :
         i # j => _cacheGroups[i].group # _cacheGroups[j].group

\* a registry built from a spec that names an unknown target, with a declared
\* target and a target left to the default group
C7_Witness ==
  /\ phase = "ready"
  /\ \E i \in 1..Len(options.cacheGroups) : UnknownName \in Range(options.cacheGroups[i].targets)
  /\ \E t \in Targets : DeclaredGroups(options, t) # {}
  /\ \E t \in Targets : DeclaredGroups(options, t) = {} /\ RegistryGroup(t) = DEFAULT_CACHE

\* C8: a target listed under two groups makes the constructor throw an error
\* that names the target and the two groups, with no task registered.
C8_DoubleListingRejected ==
  (phase # "new" /\ DoubleListed(options)) =>
    /\ phase = "error"
    /\ configError.thrown
    /\ configError.target \in Targets
    /\ configError.group # configError.otherGroup
    /\ ~configError.group.sentinel /\ ~configError.otherGroup.sentinel
    /\ {configError.group.name, configError.otherGroup.name}
         \subseteq DeclaredGroups(options, configError.target)
    /\ DOMAIN tasks = {}

\* a construction that threw
C8_Witness ==
  /\ phase = "error"
  /\ configError.thrown
  /\ DoubleListed(options)

\* C9: every group of the registry, and so every registered group task, has
\* at least one member.
C9_NoEmptyGroup ==
  phase = "ready" =>
    /\ \A i \in 1..Len(_cacheGroups) : _cacheGroups[i].targets # <<>>
    /\ \A n \in DOMAIN tasks : tasks[n].kind = "group" => tasks[n].sequence # <<>>

-----------------------------------------------------------------------------
(* Sequencing *)

\* C10: the builds a group task starts are started one at a time in member
\* order: the first when the group task starts, each later one in the step
\* in which the build of the member before it signals completion.
C10_GroupSequential ==
  [][phase = "ready" =>
       \A i \in 1..Len(_cacheGroups) :
         LET g == taskGroup(_cacheGroups[i].group)
             members == _cacheGroups[i].targets
         IN /\ Cardinality({t \in Range(members) :
                              InFlight(build'[t]) /\ build'[t].by = g}) <= 1
            /\ \A k \in 1..Len(members) :
                 (Starts(members[k]) /\ build'[members[k]].by = g) =>
                   IF k = 1
                   THEN ~groupTask[g].running /\ groupTask'[g].running
                   ELSE /\ groupTask[g].running
                        /\ groupTask[g].cur = {task(members[k - 1])}
                        /\ InFlight(build[members[k - 1]])
                        /\ ~InFlight(build'[members[k - 1]])
    ]_vars

\* a group task that has started the build of its second member after the
\* first one reported its bundle
C10_Witness ==
  \E i \in 1..Len(_cacheGroups) :
    LET g == taskGroup(_cacheGroups[i].group)
        members == _cacheGroups[i].targets
    IN /\ Len(members) >= 2
       /\ groupTask[g].running
       /\ InFlight(build[members[2]])
       /\ build[members[2]].by = g
       /\ ~InFlight(build[members[1]])
       /\ members[1] \in DOMAIN reported

\* the position of a build task's target in the targets option
IndexOfTask(name) == CHOOSE i \in 1..Len(options.targets) : task(options.targets[i]) = name

\* a listening run-sequence that changed started: it waits for build tasks
IsChangedCall(inst) == inst.cur \subseteq {task(t) : t \in Targets}

\* the number of listening run-sequences that changed started
ChangedCalls(b) ==
  LET S == {inst \in BagToSet(b) : IsChangedCall(inst)}
  IN BagCardinality([inst \in S |-> b[inst]])

\* the builds in flight that a run-sequence of changed started itself
StartedByChanged(b) == {t \in DOMAIN b : InFlight(b[t]) /\ b[t].by = TopLevel}

\* C11: a changed call runs the affected targets one at a time in the order
\* of the targets option: its run-sequence waits for one build task at a time
\* and keeps the others in targets order; the first affected target is started
\* by the call, each later one in the step in which the task before it stops;
\* so the builds that changed calls started and that are in flight are never
\* more than the changed calls still running (one for a single call).
C11_ChangedSequential ==
  [][phase = "ready" =>
       /\ \A inst \in BagToSet(calls') :
            IsChangedCall(inst) =>
              /\ Cardinality(inst.cur) = 1
              /\ \A i \in 1..Len(inst.sets) :
                   /\ Len(inst.sets[i]) = 1
                   /\ IF i = 1
                      THEN \A n \in inst.cur : IndexOfTask(n) < IndexOfTask(inst.sets[1][1])
                      ELSE IndexOfTask(inst.sets[i - 1][1]) < IndexOfTask(inst.sets[i][1])
       /\ Cardinality(StartedByChanged(build')) <= ChangedCalls(calls')
       /\ \A t \in Targets :
            (Starts(t) /\ build'[t].by = TopLevel) =>
              \/ /\ BagCardinality(calls') > BagCardinality(calls)
                 /\ \E p \in Paths : /\ ChangedTargetTasks(p) # <<>>
                                    /\ Head(ChangedTargetTasks(p)) = task(t)
              \/ \E inst \in BagToSet(calls) :
                   /\ inst.sets # <<>>
                   /\ Head(inst.sets) = <<task(t)>>
                   /\ \E u \in Targets :
                        /\ inst.cur = {task(u)}
                        /\ InFlight(build[u])
                        /\ ~InFlight(build'[u])
    ]_vars

\* no bundle was ever reported, so every changed call selected all the
\* targets: the only call still running has had its first target fail and
\* now waits for the build of the second one, which it started
C11_Witness ==
  /\ Ready
  /\ _targetDependencyMap = EmptyMap
  /\ BagCardinality(calls) = 1
  /\ \A g \in DOMAIN groupTask : ~groupTask[g].running
  /\ Len(options.targets) >= 2
  /\ options.targets[1] \in failed
  /\ StartedByChanged(build) = {options.targets[2]}
  /\ \E inst \in BagToSet(calls) : inst.cur = {task(options.targets[2])} /\ inst.sets = <<>>

\* the builds of the members of a registry group that are in flight
InFlightOf(i) == {t \in Range(_cacheGroups[i].targets) : InFlight(build[t])}

\* C12: whatever calls of runAll, runAllSequential and changed overlap, at
\* most one build per cache group is in flight.
C12_OneBuildPerGroup ==
  phase = "ready" => \A i \in 1..Len(_cacheGroups) : Cardinality(InFlightOf(i)) <= 1

-----------------------------------------------------------------------------
(* Build errors *)

\* the step is an 'error' event of a build of the target
Errors(target) == lastError'.error # NoBuildError /\ lastError'.error.target = target

\* some run-sequence waits for the task
Awaited(b, g, name) ==
  \/ \E inst \in BagToSet(b) : name \in inst.cur
  \/ \E n \in DOMAIN g : g[n].running /\ name \in g[n].cur

\* C13: with an errorHandler, an error of a build of T is passed to the
\* handler, and T's build task completes: the build is over, no run-sequence
\* waits for the task any more, and nothing is thrown.
C13_HandledErrorCompletes ==
  [][(phase = "ready" /\ options.errorHandler) =>
       \A t \in Targets :
         Errors(t) =>
           /\ InFlight(build[t])
           /\ lastError'.error = BuildError(t, build[t].phase)
           /\ lastError'.handlerArgs = <<lastError'.error>>
           /\ ~InFlight(build'[t])
           /\ ~Awaited(calls', groupTask', task(t))
           /\ ~crashed'
    ]_vars

\* the handler has just been called with the error of a build that failed
\* before its bundle, and the run-sequence that waited for it has moved on to
\* the next target
C13_Witness ==
  /\ Ready
  /\ options.errorHandler
  /\ lastError.error # NoBuildError
  /\ lastError.error.during = "rollup"
  /\ lastError.handlerArgs = <<lastError.error>>
  /\ ~InFlight(build[lastError.error.target])
  /\ lastError.error.target \notin DOMAIN _targetDependencyMap
  /\ \E u \in Targets \ {lastError.error.target} : InFlight(build[u])

-----------------------------------------------------------------------------
(* runAllSequential *)

\* the position of a group task's group in the registry
IndexOfGroup(name) == CHOOSE i \in 1..Len(_cacheGroups) : taskGroup(_cacheGroups[i].group) = name

\* the group tasks that are running
RunningGroups(g) == {n \in DOMAIN g : g[n].running}

\* the group task begins in the step / ends in the step
StartsGroup(name) == ~groupTask[name].running /\ groupTask'[name].running

EndsGroup(name) == groupTask[name].running /\ ~groupTask'[name].running

\* C15: runAllSequential runs the group tasks one at a time in registry order
\* (named groups in cacheGroups order, then the default group): the call starts
\* the first group task alone; its run-sequence waits for one group task at a
\* time with the later ones pending in registry order; a later group task
\* begins in the step in which the group task before it ends, when no build
\* that it started is in flight; and a running group task waits for one member
\* at a time with the later members pending in member order.
C15_SequentialGroupOrder ==
  [][phase = "ready" =>
       /\ RunAllSequential =>
            RunningGroups(groupTask') \ RunningGroups(groupTask) \subseteq
              {taskGroup(_cacheGroups[1].group)}
       /\ \A inst \in BagToSet(calls') :
            (~IsChangedCall(inst) /\ inst.sets # <<>>) =>
              /\ Cardinality(inst.cur) = 1
              /\ \A i \in 1..Len(inst.sets) :
                   /\ Len(inst.sets[i]) = 1
                   /\ IF i = 1
                      THEN \A n \in inst.cur : IndexOfGroup(n) < IndexOfGroup(inst.sets[1][1])
                      ELSE IndexOfGroup(inst.sets[i - 1][1]) < IndexOfGroup(inst.sets[i][1])
       /\ \A g \in DOMAIN groupTask :
            StartsGroup(g) =>
              \/ RunAll
              \/ RunAllSequential /\ IndexOfGroup(g) = 1
              \/ \E inst \in BagToSet(calls) :
                   /\ inst.sets # <<>>
                   /\ Head(inst.sets) = <<g>>
                   /\ \E h \in DOMAIN groupTask :
                        /\ inst.cur = {h}
                        /\ IndexOfGroup(h) < IndexOfGroup(g)
                        /\ EndsGroup(h)
                        /\ \A t \in Targets : InFlight(build'[t]) => build'[t].by # h
       /\ BagCardinality(calls') = 1 =>
            \A inst \in BagToSet(calls') :
              ~IsChangedCall(inst) =>
                /\ RunningGroups(groupTask') = inst.cur
                /\ \A t \in Targets :
                     InFlight(build'[t]) => build'[t].by \in inst.cur
       /\ \A g \in RunningGroups(groupTask') :
            LET members == _cacheGroups[IndexOfGroup(g)].targets
                waits == groupTask'[g].cur
                pending == groupTask'[g].sets
            IN /\ Cardinality(waits) = 1
               /\ \A n \in waits :
                    \E k \in 1..Len(members) :
                      /\ n = task(members[k])
                      /\ pending = [j \in 1..(Len(members) - k) |-> <<task(members[k + j])>>]
    ]_vars

\* a runAllSequential call over two groups: the task of the first group runs
\* the build of its member, the task of the default group is pending and no
\* build of the default group is in flight
C15_Witness ==
  /\ Ready
  /\ Len(_cacheGroups) = 2
  /\ BagCardinality(calls) = 1
  /\ \E inst \in BagToSet(calls) :
       /\ inst.cur = {taskGroup(_cacheGroups[1].group)}
       /\ inst.sets = <<(<<taskGroup(DEFAULT_CACHE)>>)>>
  /\ \E t \in Range(_cacheGroups[1].targets) : InFlight(build[t])
  /\ \A t \in Range(_cacheGroups[2].targets) : ~InFlight(build[t])
  /\ ~groupTask[taskGroup(DEFAULT_CACHE)].running

-----------------------------------------------------------------------------
(* One runAll or runAllSequential call whose builds all succeed *)

\* nothing was started yet
Quiet ==
  /\ calls = EmptyBag
  /\ reported = EmptyMap
  /\ \A t \in DOMAIN build : ~InFlight(build[t])

\* the build of the target reports a bundle / ends
Succeeds(target) ==
  /\ target \in DOMAIN build
  /\ \E modules \in Bundles(target) : BundleEvent(target, modules)

Ends(target) == target \in DOMAIN build /\ EndEvent(target)

NextRunAll ==
  \/ Construct
  \/ Quiet /\ RunAll
  \/ Quiet /\ RunAllSequential
  \/ \E target \in TargetNames : Succeeds(target)
  \/ \E target \in TargetNames : Ends(target)

\* every build that was started reports its bundle and ends
BuildsComplete ==
  \A target \in TargetNames : WF_vars(Succeeds(target)) /\ WF_vars(Ends(target))

SpecRunAll == Init /\ [][NextRunAll]_vars /\ BuildsComplete

\* done was called: the run-sequence of the call has finished
DoneCalled == calls = EmptyBag /\ reported # EmptyMap

\* C16: when every build succeeds, a runAll or runAllSequential call starts
\* the build of a target only if the target was not built yet, done is called
\* only when every target has reported its bundle and no build is in flight,
\* and done is eventually called.
C16_RunAllBuildsEachOnce ==
  /\ [][phase = "ready" =>
          /\ \A t \in Targets :
               Starts(t) => (t \notin DOMAIN reported /\ calls' # EmptyBag)
          /\ (calls # EmptyBag /\ calls' = EmptyBag) =>
               /\ DOMAIN reported' = Targets
               /\ \A t \in Targets : ~InFlight(build'[t])
       ]_vars
  /\ (calls # EmptyBag) ~> (DoneCalled /\ DOMAIN reported = Targets)

\* done was called after a run over two groups
C16_Witness ==
  /\ DoneCalled
  /\ Len(_cacheGroups) = 2
  /\ DOMAIN reported = Targets
  /\ \A t \in Targets : ~InFlight(build[t])

-----------------------------------------------------------------------------
(* changed *)

\* the targets without a dependency entry or with the path in their set
Affected(path) ==
  {t \in Targets : t \notin DOMAIN _targetDependencyMap \/ path \in _targetDependencyMap[t]}

\* the tasks a run-sequence waits for or has still to run
TasksOf(inst) == inst.cur \cup UNION {Range(inst.sets[i]) : i \in 1..Len(inst.sets)}

\* C17: changed(path) hands run-sequence the build tasks of exactly the
\* targets affected when it is called, starts no build of another target and
\* writes no dependency set or store; with no affected target it starts
\* nothing and leaves everything as it is.
C17_ChangedRunsAffected ==
  [][phase = "ready" =>
       \A p \in Paths :
         Changed(p) =>
           IF Affected(p) = {}
           THEN UNCHANGED <<build, groupTask, calls, tasks, _caches,
                            _targetDependencyMap, crashed>>
           ELSE /\ \E inst \in BagToSet(calls') :
                     /\ calls' = calls (+) SetToBag({inst})
                     /\ TasksOf(inst) = {task(t) : t \in Affected(p)}
                /\ \A t \in Targets : Starts(t) => t \in Affected(p)
                /\ UNCHANGED <<tasks, _caches, _targetDependencyMap, crashed>>
    ]_vars

\* both targets have a dependency set: the only call running is a changed call
\* that selected the first target alone and started its build
C17_Witness ==
  /\ Ready
  /\ options.targets = <<"app", "spec">>
  /\ DOMAIN _targetDependencyMap = {"app", "spec"}
  /\ calls = SetToBag({[sets |-> <<>>, cur |-> {task("app")}, finished |-> FALSE]})
  /\ build["app"].phase = "rollup"
  /\ build["app"].by = TopLevel
  /\ ~InFlight(build["spec"])

-----------------------------------------------------------------------------
(* When the dependency set is reset *)

\* the dependency entry of the target: its set, or none
Entry(deps, target) == IF target \in DOMAIN deps THEN {deps[target]} ELSE {}

\* C18 as stated: while a build of T waits for its bundle, T's dependency set
\* holds no module id of an earlier build.
C18_ResetAtStart ==
  \A t \in DOMAIN build :
    (build[t].phase = "rollup" /\ t \in DOMAIN _targetDependencyMap) =>
      _targetDependencyMap[t] = {}

\* C18 amended: the start of a build leaves every dependency entry as it is;
\* T's entry changes only in the step in which a build of T reports its bundle,
\* and is then exactly the module ids of that bundle; so from the start of an
\* attempt until its bundle T's entry is the one the attempt found.
C18_ResetAtBundle ==
  [][phase = "ready" =>
       \A t \in Targets :
         /\ Starts(t) => _targetDependencyMap' = _targetDependencyMap
         /\ Entry(_targetDependencyMap', t) # Entry(_targetDependencyMap, t) =>
              /\ Bundles_(t)
              /\ Entry(_targetDependencyMap', t) = {reported'[t]}
         /\ Bundles_(t) => Entry(_targetDependencyMap', t) = {reported'[t]}
    ]_vars

\* a rebuild that waits for its bundle while the target's dependency set is
\* still the one of its earlier bundle
C18_Witness ==
  \E t \in DOMAIN build :
    /\ build[t].phase = "rollup"
    /\ t \in DOMAIN reported
    /\ reported[t] # {}
    /\ Entry(_targetDependencyMap, t) = {reported[t]}

-----------------------------------------------------------------------------
(* A failed build inside a sequence *)

\* the run-sequence after it has moved on to its next step
MovedOn(inst) == [inst EXCEPT !.sets = Tail(inst.sets), !.cur = Range(Head(inst.sets))]

\* the builds of the tasks are in flight
AllInFlight(b, names) == \A t \in DOMAIN b : task(t) \in names => InFlight(b[t])

\* C19: with an errorHandler, in the step in which a build of T fails every
\* group task and every changed sequence that waits for T's task moves on to
\* its next step, whose build is then in flight; a group task that has no
\* further step ends.
C19_FailureDoesNotStopSequence ==
  [][(phase = "ready" /\ options.errorHandler) =>
       \A t \in Targets :
         Errors(t) =>
           /\ \A g \in DOMAIN groupTask :
                (groupTask[g].running /\ groupTask[g].cur = {task(t)}) =>
                  IF groupTask[g].sets = <<>>
                  THEN ~groupTask'[g].running
                  ELSE /\ groupTask'[g] = MovedOn(groupTask[g])
                       /\ AllInFlight(build', groupTask'[g].cur)
           /\ \A inst \in BagToSet(calls) :
                (inst.cur = {task(t)} /\ inst.sets # <<>>) =>
                  /\ MovedOn(inst) \in BagToSet(calls')
                  /\ AllInFlight(build', MovedOn(inst).cur)
    ]_vars

\* the first member of a group failed before its bundle and the group task
\* has started the build of the second member; a changed sequence that waited
\* for the failed build has moved on as well
C19_Witness ==
  /\ Ready
  /\ options.errorHandler
  /\ lastError.error.during = "rollup"
  /\ \E i \in 1..Len(_cacheGroups) :
       LET g == taskGroup(_cacheGroups[i].group)
           members == _cacheGroups[i].targets
       IN /\ Len(members) = 2
          /\ lastError.error.target = members[1]
          /\ members[1] \in failed
          /\ groupTask[g].running
          /\ groupTask[g].cur = {task(members[2])}
          /\ build[members[2]].phase = "rollup"
          /\ build[members[2]].by = g
  /\ \E inst \in BagToSet(calls) : IsChangedCall(inst)

-----------------------------------------------------------------------------
(* When a store entry is created *)

\* a member of the group that uses the cache has reported a bundle
CachingMemberReported(group, rep) ==
  \E i \in 1..Len(_cacheGroups) :
    /\ _cacheGroups[i].group = group
    /\ \E m \in Range(_cacheGroups[i].targets) \ options.skipCache : m \in DOMAIN rep

\* C20: a group has a store entry only after a member that uses the cache
\* reported a bundle: the entry is created in the step of such a bundle and
\* in no other; the start of a build reads the existing store, or nothing, and
\* leaves this._caches as it is, and so do a failing build and the bundle of a
\* skip-cache target.
C20_StoreOnlyAfterBundle ==
  [][phase = "ready" =>
       /\ \A g \in DOMAIN _caches' : CachingMemberReported(g, reported')
       /\ DOMAIN _caches' # DOMAIN _caches =>
            \E t \in Targets \ options.skipCache :
              /\ Bundles_(t)
              /\ DOMAIN _caches' = DOMAIN _caches \cup {RegistryGroup(t)}
       /\ \A t \in Targets :
            /\ Starts(t) =>
                 /\ _caches' = _caches
                 /\ t \notin options.skipCache =>
                      build'[t].seed.modules =
                        IF RegistryGroup(t) \in DOMAIN _caches
                        THEN Values(_caches[RegistryGroup(t)]) ELSE {}
            /\ Errors(t) => _caches' = _caches
            /\ Bundles_(t) =>
                 IF t \in options.skipCache THEN _caches' = _caches
                 ELSE RegistryGroup(t) \in DOMAIN _caches'
    ]_vars

\* a group still without a store entry after an attempt of its caching member
\* failed before its bundle and its skip-cache member reported a bundle
C20_Witness ==
  \E i \in 1..Len(_cacheGroups) :
    /\ _cacheGroups[i].group \notin DOMAIN _caches
    /\ \E t \in Range(_cacheGroups[i].targets) \ options.skipCache :
         t \in failed /\ ~InFlight(build[t])
    /\ \E u \in Range(_cacheGroups[i].targets) \cap options.skipCache :
         u \in DOMAIN reported /\ reported[u] # {}

-----------------------------------------------------------------------------
(* The options handed to rollup *)

OptionKeys == {"input", "cache", "plugins"}

\* the objects a caller may pass as rollupOptions, or return from it
CallerObject(keys, tag) == [k \in keys |-> Val("caller's " \o k \o tag)]

RollupOptionChoices ==
  {[isFunction |-> FALSE, value |-> CallerObject(keys, "")] : keys \in SUBSET OptionKeys}
  \cup {[isFunction |-> TRUE,
          value |-> [t \in TargetNames |-> CallerObject(keys, " for " \o t)]] :
          keys \in SUBSET OptionKeys}

\* options.input returns an entry point for every target, or nothing
InputChoices == {DefaultInput, [t \in TargetNames |-> Undefined]}

MergeOptions ==
  {[OptionsOf(l[1], l[2], l[3], TRUE) EXCEPT !.input = i, !.rollupOptions = r] :
     l \in {<<(<<"app", "spec">>), <<>>, {"spec"}>>,
             <<(<<"app", "spec">>), <<GroupEntry("g1", <<"spec", "app">>)>>, {}>>},
     i \in InputChoices, r \in RollupOptionChoices}

InitMerge == InitWith(MergeOptions)

\* one runAll or runAllSequential call under every choice of input and rollupOptions
SpecMerge == InitMerge /\ [][NextRunAll]_vars

\* the modules in the store of the target's group
GroupSeed(target) ==
  IF RegistryGroup(target) \in DOMAIN _caches
  THEN Values(_caches[RegistryGroup(target)]) ELSE {}

\* the build of the target was handed its options and waits for its bundle
Handed(target) == target \in DOMAIN build /\ build[target].phase = "rollup"

\* C21 as stated: the options handed to rollup carry the caller's value for
\* every key the caller defines other than cache, input included, and the
\* group's seed under cache for a target that uses the cache.
C21_CallerWinsButCache ==
  \A t \in TargetNames :
    Handed(t) =>
      LET merged == rollupOptions(t, build[t].seed)
          caller == CallerRollupOptions(t)
      IN /\ \A k \in DOMAIN caller \ {"cache"} :
              k \in DOMAIN merged /\ merged[k] = caller[k]
         /\ t \notin options.skipCache =>
              "cache" \in DOMAIN merged /\ merged["cache"] = CachePayload(GroupSeed(t))

\* C21 amended: the caller's value is carried for every key the caller defines
\* other than input and cache; input is what options.input returns for the
\* target (the caller's input only if that is undefined); cache is the
\* group's seed for a target that uses the cache, and the caller's cache, if
\* any, for a skip-cache target.
C21_CallerWinsButInputAndCache ==
  \A t \in TargetNames :
    Handed(t) =>
      LET merged == rollupOptions(t, build[t].seed)
          caller == CallerRollupOptions(t)
      IN /\ DOMAIN merged = {"input"} \cup DOMAIN caller
                              \cup (IF t \in options.skipCache THEN {} ELSE {"cache"})
         /\ \A k \in DOMAIN caller \ {"cache", "input"} : merged[k] = caller[k]
         /\ merged["input"] =
              IF options.input[t] # Undefined THEN options.input[t]
              ELSE IF "input" \in DOMAIN caller THEN caller["input"]
              ELSE Undefined
         /\ IF t \notin options.skipCache
            THEN merged["cache"] = CachePayload(GroupSeed(t))
            ELSE "cache" \in DOMAIN caller => merged["cache"] = caller["cache"]

\* a build that uses the cache, seeded from a filled store, whose caller
\* defined input, cache and plugins: only plugins carries the caller's value
C21_Witness ==
  \E t \in TargetNames :
    /\ Handed(t)
    /\ t \notin options.skipCache
    /\ GroupSeed(t) # {}
    /\ DOMAIN CallerRollupOptions(t) = OptionKeys
    /\ options.input[t] # Undefined
    /\ LET merged == rollupOptions(t, build[t].seed)
           caller == CallerRollupOptions(t)
       IN /\ merged["plugins"] = caller["plugins"]
          /\ merged["input"] = options.input[t]
          /\ merged["input"] # caller["input"]
          /\ merged["cache"] = CachePayload(build[t].seed.modules)
          /\ merged["cache"] # caller["cache"]

-----------------------------------------------------------------------------
(* What a build may change *)

AllGroups == {DEFAULT_CACHE} \cup {NamedGroup(n) : n \in GroupNames}

\* the store of the group: its modules object, or none
StoreOf(caches, group) == IF group \in DOMAIN caches THEN {caches[group]} ELSE {}

\* C22: after construction the targets, the target -> group assignment and
\* the group -> targets map never change; a dependency entry changes only in
\* the step of a bundle of its own target, and a store only in the step of a
\* bundle of a target of its own group; the bundle of T leaves every other
\* target's entry and every other group's store as they were.
C22_BuildFrame ==
  [][phase = "ready" =>
       /\ options' = options
       /\ _targetCacheGroups' = _targetCacheGroups
       /\ _cacheGroups' = _cacheGroups
       /\ \A t \in Targets :
            Entry(_targetDependencyMap', t) # Entry(_targetDependencyMap, t) => Bundles_(t)
       /\ \A g \in AllGroups :
            StoreOf(_caches', g) # StoreOf(_caches, g) =>
              \E t \in Targets : Bundles_(t) /\ RegistryGroup(t) = g
       /\ \A t \in Targets :
            Bundles_(t) =>
              /\ \A u \in Targets \ {t} :
                   Entry(_targetDependencyMap', u) = Entry(_targetDependencyMap, u)
              /\ \A g \in AllGroups \ {RegistryGroup(t)} :
                   StoreOf(_caches', g) = StoreOf(_caches, g)
       /\ DOMAIN _targetDependencyMap' \subseteq Targets
       /\ DOMAIN _caches' \subseteq {_cacheGroups[i].group : i \in 1..Len(_cacheGroups)}
    ]_vars

\* two groups whose stores and whose targets' dependency sets differ
C22_Witness ==
  /\ Len(_cacheGroups) = 2
  /\ \A i \in 1..2 : _cacheGroups[i].group \in DOMAIN _caches
  /\ DOMAIN _caches[_cacheGroups[1].group] # DOMAIN _caches[_cacheGroups[2].group]
  /\ DOMAIN _targetDependencyMap = Targets
  /\ \E t, u \in Targets :
       /\ RegistryGroup(t) # RegistryGroup(u)
       /\ _targetDependencyMap[t] # _targetDependencyMap[u]
       /\ _targetDependencyMap[t] = DOMAIN _caches[RegistryGroup(t)]
       /\ _targetDependencyMap[u] = DOMAIN _caches[RegistryGroup(u)]

-----------------------------------------------------------------------------
(* No eviction *)

\* C23: a store, once created, stays and never loses a module id; the record
\* under an id changes only in the step of a bundle of a caching target of the
\* group that reports the id, and is then that bundle's record.
C23_NoEviction ==
  [][phase = "ready" =>
       \A g \in DOMAIN _caches :
         /\ g \in DOMAIN _caches'
         /\ DOMAIN _caches[g] \subseteq DOMAIN _caches'[g]
         /\ \A id \in DOMAIN _caches[g] :
              _caches'[g][id] # _caches[g][id] =>
                \E t \in Targets \ options.skipCache :
                  /\ RegistryGroup(t) = g
                  /\ Bundles_(t)
                  /\ id \in reported'[t]
                  /\ _caches'[g][id] = ModuleRecord(id, t)
    ]_vars

\* a store that still holds the record of a target whose last bundle reported
\* no module at all, next to a record of another target of the group
C23_Witness ==
  \E g \in DOMAIN _caches :
    \E t, u \in DOMAIN reported :
      /\ t # u
      /\ reported[u] = {}
      /\ DOMAIN _caches[g] = Modules
      /\ _caches[g]["m2"] = ModuleRecord("m2", u)
      /\ _caches[g]["m1"] = ModuleRecord("m1", t)

-----------------------------------------------------------------------------
(* Task names *)

\* target and group names chosen to resemble the other kind of task name
TrickyTargets == {"app", "group:app", "defaultgroup", ""}

TrickyGroups == {"app", ""}

NameOptions ==
  LET entries == {GroupEntry(g, ts) : g \in TrickyGroups,
                    ts \in SeqsUpTo(TrickyTargets, MaxListed)}
      specs   == {spec \in SeqsUpTo(entries, Cardinality(TrickyGroups)) : DistinctKeys(spec)}
      lists   == {ts \in SeqsUpTo(TrickyTargets, MaxNamed) : NoRepeat(ts)}
  IN {OptionsOf(ts, spec, {}, FALSE) : ts \in lists, spec \in specs}

InitNames == InitWith(NameOptions)

\* constructions over the tricky names
SpecNames == InitNames /\ [][Construct]_vars

TrickyKeys == {DEFAULT_CACHE} \cup {NamedGroup(n) : n \in TrickyGroups \cup TrickyTargets}

\* C24: task gives distinct targets distinct names, taskGroup gives distinct
\* groups distinct names, the default group's among them, and no target's
\* name is a group's; so the constructor registers one task per target and
\* one per group, each under its own name.
C24_TaskNamesDistinct ==
  /\ \A t, u \in TrickyTargets \cup TrickyGroups : t # u => task(t) # task(u)
  /\ \A g, h \in TrickyKeys : g # h => taskGroup(g) # taskGroup(h)
  /\ \A t \in TrickyTargets \cup TrickyGroups : \A g \in TrickyKeys : task(t) # taskGroup(g)
  /\ phase = "ready" =>
       /\ Cardinality(DOMAIN tasks) = Cardinality(Targets) + Len(_cacheGroups)
       /\ \A t \in Targets :
            /\ task(t) \in DOMAIN tasks
            /\ tasks[task(t)] = TargetTaskDef(t)
       /\ \A i \in 1..Len(_cacheGroups) :
            /\ taskGroup(_cacheGroups[i].group) \in DOMAIN tasks
            /\ tasks[taskGroup(_cacheGroups[i].group)] = GroupTaskDef(_cacheGroups[i])

\* a registry with the group "app", its target "group:app", and the default
\* group holding the target "defaultgroup"
C24_Witness ==
  /\ phase = "ready"
  /\ Targets = {"group:app", "defaultgroup"}
  /\ Len(_cacheGroups) = 2
  /\ _cacheGroups[1] = [group |-> NamedGroup("app"), targets |-> <<"group:app">>]
  /\ _cacheGroups[2] = [group |-> DEFAULT_CACHE, targets |-> <<"defaultgroup">>]
  /\ DOMAIN tasks = {"js:group:app", "js:defaultgroup", "jsgroup:app", "jsdefaultgroup"}

====
